---- MODULE Spec2Model ----
(***************************************************************************)
(* The CAPTCHA OCR service: the POST / handler of index.js, the three      *)
(* preprocessing profiles of ocr/process.js and the sort-based recognizer  *)
(* of ocr/recognize.js (recognizeWithConfig, recognizeWithTesseract,       *)
(* recognizeText, generateCorrectionVariants).                             *)
(*                                                                         *)
(* One request is followed from its arrival to its response.  Every await  *)
(* of the handler is a step: the action named after the awaited call is    *)
(* the continuation that runs when that call returns or throws.            *)
(* Texts are sequences of one-character strings.                           *)
(***************************************************************************)
EXTENDS Integers, Sequences, FiniteSets, TLC

\* Confidences reported by the OCR engine range over 0..MaxConf.
MaxConf == 1

\* ------------------------------------------------------------------------
\* Characters and texts
\* ------------------------------------------------------------------------

UpperCase ==
    << "A", "B", "C", "D", "E", "F", "G", "H", "I", "J", "K", "L", "M",
       "N", "O", "P", "Q", "R", "S", "T", "U", "V", "W", "X", "Y", "Z" >>

LowerCase ==
    << "a", "b", "c", "d", "e", "f", "g", "h", "i", "j", "k", "l", "m",
       "n", "o", "p", "q", "r", "s", "t", "u", "v", "w", "x", "y", "z" >>

Letters == { UpperCase[i] : i \in 1..26 }

Digits == { "0", "1", "2", "3", "4", "5", "6", "7", "8", "9" }

\* String.prototype.toUpperCase on one character.
toUpperCase(ch) ==
    IF \E i \in 1..26 : LowerCase[i] = ch
    THEN UpperCase[CHOOSE i \in 1..26 : LowerCase[i] = ch]
    ELSE ch

\* The character class [A-Z0-9].
IsAlnum(ch) == ch \in Letters \cup Digits

\* Faulty cleaning: uppercases and removes nothing.
WrongClean(text) == [i \in 1..Len(text) |-> toUpperCase(text[i])]

\* Faulty cleaning: the replacement lacks the g flag and removes only the
\* first character outside A-Z0-9.
RECURSIVE removeFirst(_)
removeFirst(text) ==
    IF text = << >> THEN << >>
    ELSE IF ~IsAlnum(Head(text)) THEN Tail(text)
    ELSE << Head(text) >> \o removeFirst(Tail(text))

CleanFirstOnly(text) ==
    removeFirst([i \in 1..Len(text) |-> toUpperCase(text[i])])

\* text.toUpperCase().replace(/[^A-Z0-9]/g, '')
Clean(text) == SelectSeq([i \in 1..Len(text) |-> toUpperCase(text[i])], IsAlnum)

\* text.includes(ch), Array.prototype.includes
includes(seq, x) == \E i \in 1..Len(seq) : seq[i] = x

\* text.replace(/<from>/g, to)
replaceAll(text, from, to) ==
    [i \in 1..Len(text) |-> IF text[i] = from THEN to ELSE text[i]]

\* [...new Set(variants)]: first occurrences, in insertion order.
RECURSIVE uniq(_, _)
uniq(acc, seq) ==
    IF seq = << >> THEN acc
    ELSE uniq(IF includes(acc, Head(seq)) THEN acc ELSE Append(acc, Head(seq)),
              Tail(seq))

\* if (text.includes(from)) variants.push(text.replace(/from/g, to))
pushVariant(text, from, to) ==
    IF includes(text, from) THEN << replaceAll(text, from, to) >> ELSE << >>

\* Faulty variants: 1 is replaced by the lowercase letter l.
generateCorrectionVariantsLowerL(text) ==
    uniq(<< >>,
         << text >>
         \o pushVariant(text, "W", "V")
         \o pushVariant(text, "V", "W")
         \o pushVariant(text, "0", "O")
         \o pushVariant(text, "O", "0")
         \o pushVariant(text, "1", "l")
         \o pushVariant(text, "I", "1"))

\* Faulty variants: the list does not start with the text itself.
generateCorrectionVariantsNoOriginal(text) ==
    uniq(<< >>,
         pushVariant(text, "W", "V")
         \o pushVariant(text, "V", "W")
         \o pushVariant(text, "0", "O")
         \o pushVariant(text, "O", "0")
         \o pushVariant(text, "1", "I")
         \o pushVariant(text, "I", "1"))

\* Faulty variants: the replacement of W by V is missing.
generateCorrectionVariantsNoWV(text) ==
    uniq(<< >>,
         << text >>
         \o pushVariant(text, "V", "W")
         \o pushVariant(text, "0", "O")
         \o pushVariant(text, "O", "0")
         \o pushVariant(text, "1", "I")
         \o pushVariant(text, "I", "1"))

\* The text itself, then one variant per confusable character it contains,
\* without duplicates.
generateCorrectionVariants(text) ==
    uniq(<< >>,
         << text >>
         \o pushVariant(text, "W", "V")
         \o pushVariant(text, "V", "W")
         \o pushVariant(text, "0", "O")
         \o pushVariant(text, "O", "0")
         \o pushVariant(text, "1", "I")
         \o pushVariant(text, "I", "1"))

\* ------------------------------------------------------------------------
\* Fixed tables of the program
\* ------------------------------------------------------------------------

\* index.js: the three preprocessing strategies, in loop order.
strategies == << "balanced", "high-contrast", "light" >>

\* recognize.js: the four page segmentation modes, in loop order.
psmStrategies == << "LINE", "WORD", "RAW", "BLOCK" >>

\* Faulty name: the strategy is left out of the path.
debugPathNoStrategy(name) == << "debug" >>

\* Name of the debug image written for one preprocessing strategy.
debugPath(name) == << "debug", name >>

\* ------------------------------------------------------------------------
\* Inputs
\* ------------------------------------------------------------------------

\* What the request body carries in its captcha field.
Captchas == { "missing", "nonstring", "undecodable", "image" }

\* Raw texts the OCR engine may report.
RawTexts ==
    { << "a", "?" >>,
      << "w", "?", "0", "r" >>,
      << "W", "0", "R", "D" >>,
      << "a", "t", "-", "1", "k", "9", " ", "o", "x" >> }

\* Confidences the OCR engine may report; confidence || 0 leaves a number
\* as it is.
Confidences == 0..MaxConf

\* Outcomes of an awaited call that returns no value.
Outcomes == { "ok", "throw" }

\* Faulty preprocessing: bytes that are not an image may be rendered.
WrongPreprocessOutcomes(c) == Outcomes

\* sharp rejects bytes that are not an image; on an image a transform chain
\* may still fail.
PreprocessOutcomes(c) == IF c = "image" THEN Outcomes ELSE { "throw" }

null == [ null |-> TRUE ]

NoResponse == [ status |-> 0 ]

\* A result of the try block of recognizeWithConfig that threw.
threw == [ threw |-> TRUE ]

\* ------------------------------------------------------------------------
\* recognize.js: ranking of the results of one rendering
\* ------------------------------------------------------------------------

\* Faulty filter: any non-empty cleaned text is kept.
keepAnyResult(cleaned) == Len(cleaned) >= 1

\* if (cleaned.length >= 3) results.push(...)
keepResult(cleaned) == Len(cleaned) >= 3

\* a.text.length === 4 ? 1 : 0
is4(a) == IF Len(a.text) = 4 THEN 1 ELSE 0

\* Faulty comparator: confidence alone.
compareConfidenceOnly(a, b) == b.confidence - a.confidence

\* The comparator handed to results.sort.
compare(a, b) ==
    IF is4(a) # is4(b) THEN is4(b) - is4(a)
    ELSE b.confidence - a.confidence

\* Faulty sort: an element is placed before the elements it compares equal
\* to, so the last seen of several tied elements comes first.
RECURSIVE insertBeforeEqual(_, _)
insertBeforeEqual(sorted, x) ==
    IF sorted = << >> THEN << x >>
    ELSE IF compare(x, Head(sorted)) <= 0 THEN << x >> \o sorted
    ELSE << Head(sorted) >> \o insertBeforeEqual(Tail(sorted), x)

\* Array.prototype.sort is stable: an element is placed before the first
\* element it must precede, after every element it compares equal to.
RECURSIVE insert(_, _)
insert(sorted, x) ==
    IF sorted = << >> THEN << x >>
    ELSE IF compare(x, Head(sorted)) < 0 THEN << x >> \o sorted
    ELSE << Head(sorted) >> \o insert(Tail(sorted), x)

RECURSIVE sort(_)
sort(rs) ==
    IF rs = << >> THEN << >>
    ELSE insert(sort(SubSeq(rs, 1, Len(rs) - 1)), rs[Len(rs)])

\* Faulty recognizer: the text is not cut.
finalTextUncut(best) == best.text

\* Faulty cut: at 6 characters.
finalTextSix(best) ==
    IF Len(best.text) > 6 THEN SubSeq(best.text, 1, 6) ELSE best.text

\* finalText: best.text, cut to its first 4 characters when longer.
finalText(best) ==
    IF Len(best.text) > 4 THEN SubSeq(best.text, 1, 4) ELSE best.text

\* What recognizeText returns for a non-empty sorted results array; winner
\* is the head of allResults, the text and confidence of results[0].
recognizeTextResult(sorted) ==
    [ solution     |-> finalText(sorted[1]),
      alternatives |-> generateCorrectionVariants(finalText(sorted[1])),
      confidence   |-> sorted[1].confidence,
      winner       |-> [ text |-> sorted[1].text,
                         confidence |-> sorted[1].confidence ] ]

\* ------------------------------------------------------------------------
\* index.js: smart correction, length validation, responses
\* ------------------------------------------------------------------------

\* Faulty correction: the length of the solution is not looked at.
smartCorrectionAnyLength(solution, alternatives) ==
    IF includes(solution, "W") /\ includes(alternatives, replaceAll(solution, "W", "V"))
    THEN replaceAll(solution, "W", "V")
    ELSE solution

\* Step 4: W -> V when the solution has 4 characters and the variant is
\* among the alternatives.
smartCorrection(solution, alternatives) ==
    IF includes(solution, "W") /\ Len(solution) = 4
       /\ includes(alternatives, replaceAll(solution, "W", "V"))
    THEN replaceAll(solution, "W", "V")
    ELSE solution

\* solution.match(/[A-Z]{4}/): the leftmost run of four letters, << >> for
\* no match.
match4(solution) ==
    LET starts == { i \in 1..(Len(solution) - 3) :
                      \A k \in 0..3 : solution[i + k] \in Letters }
    IN  IF starts = {} THEN << >>
        ELSE LET first == CHOOSE i \in starts : \A j \in starts : i <= j
             IN  SubSeq(solution, first, first + 3)

\* Strict length validation and the response that follows it.
lengthValidation(solution) ==
    IF Len(solution) < 3 \/ Len(solution) > 6
    THEN IF Len(solution) > 6
         THEN IF match4(solution) # << >>
              THEN [ status |-> 200, solution |-> match4(solution) ]
              ELSE [ status |-> 422, error |-> "Invalid OCR result",
                     message |-> "Solution too long" ]
         ELSE [ status |-> 422, error |-> "Invalid OCR result",
                message |-> "Solution too short" ]
    ELSE [ status |-> 200, solution |-> solution ]

\* The catch block of the handler.
processingFailed(message) ==
    [ status |-> 500, error |-> "OCR processing failed", message |-> message ]

\* Lines 131-191: what the handler answers once the strategy loop is over.
respond(best) ==
    IF best = null
    THEN processingFailed("All preprocessing strategies failed")
    ELSE lengthValidation(smartCorrection(best.solution, best.alternatives))

\* ------------------------------------------------------------------------
\* State
\* ------------------------------------------------------------------------

VARIABLES
    captcha,          \* req.body.captcha of the request
    pc,               \* the call the handler is awaiting, "start" or "done"
    response,         \* the response sent, NoResponse before it is sent
    files,            \* debug images written by the request
    strategyIdx,      \* index.js: position of the preprocessing-strategy loop
    bestOcrResult,    \* index.js: best result so far, or null
    bestConfidence,   \* index.js: its confidence
    ocrResult,        \* index.js: what the last recognizeText call returned
    psmIdx,           \* recognize.js: position of the PSM loop
    results,          \* recognize.js: the results array of the last call
    pending,          \* recognizeWithConfig: outcome held while terminate runs
    liveWorkers,      \* workers created and not yet terminated
    terminateCalls,   \* terminate() calls made on the last worker created
    attemptLog,       \* outcome of each PSM attempt of the last rendering
    seen,             \* kinds of candidates pushed so far in the request
    inflight,         \* requests handled at the same time, each with its own
                      \* locals, when several are in flight
    table             \* locals of a call of the confusion-table version of
                      \* recognizeWithTesseract

vars ==
    << captcha, pc, response, files, strategyIdx, bestOcrResult,
       bestConfidence, ocrResult, psmIdx, results, pending, liveWorkers,
       terminateCalls, attemptLog, seen, inflight, table >>

\* The confusion-table recognizer is not called.
NoTableCall ==
    [ pc |-> "idle", idx |-> 0, bestResult |-> << >>, bestLength |-> 0,
      bestConfidence |-> 0, allVariants |-> << >>, reads |-> << >>,
      ret |-> [ text |-> << >>, variants |-> << >> ] ]

\* No further request is in flight.
NoRequests == [ scn |-> << >>, req |-> << >>, best |-> << >>, disk |-> {} ]

Init ==
    /\ captcha \in Captchas
    /\ pc = "start"
    /\ response = NoResponse
    /\ files = {}
    /\ strategyIdx = 0
    /\ bestOcrResult = null
    /\ bestConfidence = 0
    /\ ocrResult = null
    /\ psmIdx = 0
    /\ results = << >>
    /\ pending = null
    /\ liveWorkers = {}
    /\ terminateCalls = 0
    /\ attemptLog = << >>
    /\ seen = {}
    /\ inflight = NoRequests
    /\ table = NoTableCall

\* ------------------------------------------------------------------------
\* Control flow shared by the continuations
\* ------------------------------------------------------------------------

\* Faulty loop: the strategy is tried again instead of the next one.
NextStrategyRetry(best) ==
    /\ strategyIdx' = strategyIdx
    /\ pc' = "preprocess"
    /\ response' = response

\* index.js 107-191: one iteration of the strategy loop is over with best as
\* the best result; the next strategy is preprocessed, or the loop is over
\* and the response is sent.
NextStrategy(best) ==
    IF strategyIdx < Len(strategies)
    THEN /\ strategyIdx' = strategyIdx + 1
         /\ pc' = "preprocess"
         /\ response' = response
    ELSE /\ strategyIdx' = strategyIdx + 1
         /\ pc' = "done"
         /\ response' = respond(best)

\* recognize.js 221-260 and index.js 119-129: the PSM loop is over with
\* results rs.  With no result recognizeWithTesseract throws and the handler
\* moves on; otherwise the results are sorted, the first one is returned and
\* kept when its confidence is higher than the best so far.
RecognizeTextReturns(rs) ==
    IF Len(rs) = 0
    THEN /\ results' = rs
         /\ ocrResult' = null
         /\ UNCHANGED << bestOcrResult, bestConfidence >>
         /\ NextStrategy(bestOcrResult)
    ELSE LET r == recognizeTextResult(sort(rs))
         IN  /\ results' = sort(rs)
             /\ ocrResult' = r
             /\ IF r.confidence > bestConfidence
                THEN /\ bestConfidence' = r.confidence
                     /\ bestOcrResult' = r
                     /\ NextStrategy(r)
                ELSE /\ UNCHANGED << bestOcrResult, bestConfidence >>
                     /\ NextStrategy(bestOcrResult)

\* Faulty loop: the first usable result ends the loop.
EndAttemptEarlyExit(rs, outcome) ==
    /\ attemptLog' = Append(attemptLog, outcome)
    /\ IF psmIdx < Len(psmStrategies) /\ outcome # "usable"
       THEN /\ psmIdx' = psmIdx + 1
            /\ pc' = "createWorker"
            /\ results' = rs
            /\ UNCHANGED << ocrResult, bestOcrResult, bestConfidence,
                            strategyIdx, response >>
       ELSE /\ psmIdx' = Len(psmStrategies) + 1
            /\ RecognizeTextReturns(rs)

\* recognize.js 203-219: one PSM attempt is over, leaving results rs; the
\* next mode is tried, or the loop ends.
EndAttempt(rs, outcome) ==
    /\ attemptLog' = Append(attemptLog, outcome)
    /\ IF psmIdx < Len(psmStrategies)
       THEN /\ psmIdx' = psmIdx + 1
            /\ pc' = "createWorker"
            /\ results' = rs
            /\ UNCHANGED << ocrResult, bestOcrResult, bestConfidence,
                            strategyIdx, response >>
       ELSE /\ psmIdx' = psmIdx + 1
            /\ RecognizeTextReturns(rs)

\* Faulty loop: the failure of an attempt is not caught inside the PSM loop;
\* it leaves recognizeWithTesseract and is caught by the handler.
AttemptAbortsLoop ==
    /\ attemptLog' = Append(attemptLog, "failed")
    /\ psmIdx' = psmIdx
    /\ results' = results
    /\ ocrResult' = null
    /\ UNCHANGED << bestOcrResult, bestConfidence >>
    /\ NextStrategy(bestOcrResult)

\* recognize.js 216-218: an attempt that threw leaves no result and the loop
\* goes on.
AttemptFailed == EndAttempt(results, "failed")

\* ------------------------------------------------------------------------
\* index.js: the POST / handler
\* ------------------------------------------------------------------------

\* Faulty validation: the 400 response is sent without return, and the
\* handler goes on.
ReceiveNoReturn ==
    /\ pc = "start"
    /\ pc' = "preprocessImage"
    /\ IF captcha = "missing"
       THEN response' = [ status |-> 400,
                          error |-> "Missing required field: captcha" ]
       ELSE IF captcha = "nonstring"
       THEN response' = [ status |-> 400,
                          error |-> "Invalid captcha format: must be a base64 string" ]
       ELSE response' = response
    /\ UNCHANGED << table, inflight, captcha, files, strategyIdx, bestOcrResult,
                    bestConfidence, ocrResult, psmIdx, results, pending,
                    liveWorkers, terminateCalls, attemptLog, seen >>

\* Faulty validation: the type of captcha is not checked.
ReceiveNoTypeCheck ==
    /\ pc = "start"
    /\ IF captcha = "missing"
       THEN /\ response' = [ status |-> 400,
                             error |-> "Missing required field: captcha" ]
            /\ pc' = "done"
       ELSE /\ response' = response
            /\ pc' = "preprocessImage"
    /\ UNCHANGED << table, inflight, captcha, files, strategyIdx, bestOcrResult, bestConfidence,
                    ocrResult, psmIdx, results, pending, liveWorkers,
                    terminateCalls, attemptLog, seen >>

\* Lines 53-84: validation of the body, then preprocessImage is called.
Receive ==
    /\ pc = "start"
    /\ IF captcha = "missing"
       THEN /\ response' = [ status |-> 400,
                             error |-> "Missing required field: captcha" ]
            /\ pc' = "done"
       ELSE IF captcha = "nonstring"
       THEN /\ response' = [ status |-> 400,
                             error |-> "Invalid captcha format: must be a base64 string" ]
            /\ pc' = "done"
       ELSE /\ response' = response
            /\ pc' = "preprocessImage"
    /\ UNCHANGED << table, inflight, captcha, files, strategyIdx, bestOcrResult, bestConfidence,
                    ocrResult, psmIdx, results, pending, liveWorkers,
                    terminateCalls, attemptLog, seen >>

\* Lines 84-110: the first preprocessImage call is over.  A failure reaches
\* the catch block of the handler; otherwise the debug image is written and
\* the strategy loop starts.
PreprocessImage ==
    /\ pc = "preprocessImage"
    /\ \E outcome \in PreprocessOutcomes(captcha) :
         IF outcome = "throw"
         THEN /\ response' = processingFailed("Preprocessing failed")
              /\ pc' = "done"
              /\ UNCHANGED << files, strategyIdx >>
         ELSE /\ files' = files \cup { << "debug" >> }
              /\ strategyIdx' = 1
              /\ pc' = "preprocess"
              /\ response' = response
    /\ UNCHANGED << table, inflight, captcha, bestOcrResult, bestConfidence, ocrResult, psmIdx,
                    results, pending, liveWorkers, terminateCalls, attemptLog,
                    seen >>

\* Lines 110-118 and 126-128: strategy.preprocess() is over.  A failure is
\* caught and the next strategy follows; otherwise the debug image is
\* written and recognizeText is called, which starts the PSM loop.
StrategyPreprocess ==
    /\ pc = "preprocess"
    /\ \E outcome \in PreprocessOutcomes(captcha) :
         IF outcome = "throw"
         THEN /\ NextStrategy(bestOcrResult)
              /\ UNCHANGED << files, bestOcrResult, bestConfidence, ocrResult,
                              psmIdx, results, attemptLog >>
         ELSE /\ files' = files \cup { debugPath(strategies[strategyIdx]) }
              /\ results' = << >>
              /\ attemptLog' = << >>
              /\ ocrResult' = null
              /\ psmIdx' = 1
              /\ pc' = "createWorker"
              /\ UNCHANGED << strategyIdx, response, bestOcrResult,
                              bestConfidence >>
    /\ UNCHANGED << table, inflight, captcha, pending, liveWorkers, terminateCalls, seen >>

\* ------------------------------------------------------------------------
\* recognize.js: recognizeWithConfig inside the PSM loop
\* ------------------------------------------------------------------------

\* The worker of the attempt in progress.
currentWorker == << strategyIdx, psmIdx >>

\* Lines 163-168: Tesseract.createWorker is over; the worker exists only
\* when it returned.
CreateWorker ==
    /\ pc = "createWorker"
    /\ \E outcome \in Outcomes :
         IF outcome = "throw"
         THEN /\ AttemptFailed
              /\ UNCHANGED << liveWorkers, terminateCalls >>
         ELSE /\ liveWorkers' = liveWorkers \cup { currentWorker }
              /\ terminateCalls' = 0
              /\ pc' = "setParameters"
              /\ UNCHANGED << response, strategyIdx, bestOcrResult,
                              bestConfidence, ocrResult, psmIdx, results,
                              attemptLog >>
    /\ UNCHANGED << table, inflight, captcha, files, pending, seen >>

\* Faulty recognizeWithConfig: no finally block, a failure of setParameters
\* leaves the attempt without terminating the worker.
SetParametersNoFinally ==
    /\ pc = "setParameters"
    /\ \E outcome \in Outcomes :
         IF outcome = "throw"
         THEN /\ AttemptFailed
              /\ UNCHANGED << pending, terminateCalls >>
         ELSE /\ pc' = "recognize"
              /\ UNCHANGED << pending, terminateCalls, response, strategyIdx,
                              bestOcrResult, bestConfidence, ocrResult, psmIdx,
                              results, attemptLog >>
    /\ UNCHANGED << table, inflight, captcha, files, liveWorkers, seen >>

\* Lines 168-188: worker.setParameters is over; a failure enters the finally
\* block, which calls worker.terminate().
SetParameters ==
    /\ pc = "setParameters"
    /\ \E outcome \in Outcomes :
         IF outcome = "throw"
         THEN /\ pending' = threw
              /\ terminateCalls' = terminateCalls + 1
              /\ pc' = "terminate"
         ELSE /\ pc' = "recognize"
              /\ UNCHANGED << pending, terminateCalls >>
    /\ UNCHANGED << table, inflight, captcha, response, files, strategyIdx, bestOcrResult,
                    bestConfidence, ocrResult, psmIdx, results, liveWorkers,
                    attemptLog, seen >>

\* Lines 184-188: worker.recognize is over, with a text and a confidence or
\* with a failure; the finally block calls worker.terminate().
Recognize ==
    /\ pc = "recognize"
    /\ \/ pending' = threw
       \/ \E text \in RawTexts, confidence \in Confidences :
            pending' = [ text |-> text, confidence |-> confidence ]
    /\ terminateCalls' = terminateCalls + 1
    /\ pc' = "terminate"
    /\ UNCHANGED << table, inflight, captcha, response, files, strategyIdx, bestOcrResult,
                    bestConfidence, ocrResult, psmIdx, results, liveWorkers,
                    attemptLog, seen >>

\* Faulty finally block: worker.terminate() is not awaited, the attempt is
\* over while the worker is still there.
TerminateNotAwaited ==
    /\ pc = "terminate"
    /\ liveWorkers' = liveWorkers
    /\ pending' = null
    /\ IF pending = threw
       THEN /\ AttemptFailed
            /\ seen' = seen
       ELSE IF keepResult(Clean(pending.text))
       THEN /\ EndAttempt(
                 Append(results,
                        [ text       |-> Clean(pending.text),
                          confidence |-> pending.confidence,
                          mode       |-> psmStrategies[psmIdx] ]),
                 "usable")
            /\ seen' = seen \cup
                 { IF Len(Clean(pending.text)) = 4 THEN "exact" ELSE "other" }
       ELSE /\ EndAttempt(results, "unusable")
            /\ seen' = seen
    /\ UNCHANGED << table, inflight, captcha, files, terminateCalls >>

\* Lines 187-219: worker.terminate() is over and the worker is gone.  When
\* the try block had a result and terminate returned, the text is cleaned
\* and kept if it has at least 3 characters; a failure of either leaves no
\* result.
Terminate ==
    /\ pc = "terminate"
    /\ liveWorkers' = liveWorkers \ { currentWorker }
    /\ pending' = null
    /\ \E outcome \in Outcomes :
         IF outcome = "throw" \/ pending = threw
         THEN /\ AttemptFailed
              /\ seen' = seen
         ELSE LET cleaned == Clean(pending.text)
              IN  IF keepResult(cleaned)
                  THEN /\ EndAttempt(
                            Append(results,
                                   [ text       |-> cleaned,
                                     confidence |-> pending.confidence,
                                     mode       |-> psmStrategies[psmIdx] ]),
                            "usable")
                       /\ seen' = seen \cup
                            { IF Len(cleaned) = 4 THEN "exact" ELSE "other" }
                  ELSE /\ EndAttempt(results, "unusable")
                       /\ seen' = seen
    /\ UNCHANGED << table, inflight, captcha, files, terminateCalls >>

\* ------------------------------------------------------------------------
\* Specification
\* ------------------------------------------------------------------------

Next ==
    \/ Receive
    \/ PreprocessImage
    \/ StrategyPreprocess
    \/ CreateWorker
    \/ SetParameters
    \/ Recognize
    \/ Terminate

Spec == Init /\ [][Next]_vars

\* ------------------------------------------------------------------------
\* Several requests in flight: every request runs the handler with its own
\* locals, and the continuations of different requests interleave
\* ------------------------------------------------------------------------

NumRequests == 2

Requests == 1..NumRequests

\* What one PSM attempt meets: the call that fails, or the text read.
failsAt(call) == [ fails |-> call, text |-> << >>, confidence |-> 0 ]

reads(text, confidence) ==
    [ fails |-> "none", text |-> text, confidence |-> confidence ]

\* worker.recognize returns the text and worker.terminate() then fails.
terminateFailsAfter(text, confidence) ==
    [ fails |-> "terminate", text |-> text, confidence |-> confidence ]

noAttempt ==
    << failsAt("createWorker"), failsAt("createWorker"),
       failsAt("createWorker"), failsAt("createWorker") >>

\* The image of a request and what its preprocessing and OCR calls do:
\* captcha, outcome of the first preprocessImage, outcome of each strategy's
\* preprocess, and the four PSM attempts of each rendering.
Scenarios ==
    { [ captcha |-> "missing", first |-> "throw",
        pre |-> << "throw", "throw", "throw" >>,
        ocr |-> << noAttempt, noAttempt, noAttempt >> ],
      [ captcha |-> "nonstring", first |-> "throw",
        pre |-> << "throw", "throw", "throw" >>,
        ocr |-> << noAttempt, noAttempt, noAttempt >> ],
      [ captcha |-> "undecodable", first |-> "throw",
        pre |-> << "throw", "throw", "throw" >>,
        ocr |-> << noAttempt, noAttempt, noAttempt >> ],
      [ captcha |-> "image", first |-> "ok",
        pre |-> << "ok", "throw", "throw" >>,
        ocr |-> << << reads(<< "W", "0", "R", "D" >>, 1),
                      failsAt("createWorker"), failsAt("createWorker"),
                      failsAt("createWorker") >>,
                   noAttempt, noAttempt >> ],
      [ captcha |-> "image", first |-> "ok",
        pre |-> << "throw", "ok", "throw" >>,
        ocr |-> << noAttempt,
                   << failsAt("setParameters"),
                      reads(<< "a", "t", "-", "1", "k", "9", " ", "o", "x" >>, 1),
                      failsAt("createWorker"), failsAt("createWorker") >>,
                   noAttempt >> ],
      [ captcha |-> "image", first |-> "ok",
        pre |-> << "throw", "ok", "ok" >>,
        ocr |-> << noAttempt,
                   << reads(<< "a", "?" >>, 1), failsAt("recognize"),
                      failsAt("createWorker"), failsAt("createWorker") >>,
                   << failsAt("createWorker"),
                      terminateFailsAfter(<< "W", "0", "R", "D" >>, 1),
                      failsAt("createWorker"),
                      reads(<< "w", "?", "0", "r" >>, 0) >> >> ] }

\* index.js 103-105: bestOcrResult and bestConfidence are declared with let
\* inside the handler, so every request has a pair of its own.
noBest == [ result |-> null, confidence |-> 0 ]

\* Faulty handler: bestOcrResult and bestConfidence are declared at module
\* level, one pair for all requests.
bestOfShared(r) == 1

\* The pair of bestOcrResult and bestConfidence that request r uses.
bestOf(r) == r

\* The locals of a request before its handler runs.
newRequest ==
    [ pc |-> "start", response |-> NoResponse, strategyIdx |-> 0,
      psmIdx |-> 0, results |-> << >>, pending |-> null ]

InitTwo ==
    /\ captcha = "image"
    /\ pc = "start"
    /\ response = NoResponse
    /\ files = {}
    /\ strategyIdx = 0
    /\ bestOcrResult = null
    /\ bestConfidence = 0
    /\ ocrResult = null
    /\ psmIdx = 0
    /\ results = << >>
    /\ pending = null
    /\ liveWorkers = {}
    /\ terminateCalls = 0
    /\ attemptLog = << >>
    /\ seen = {}
    /\ table = NoTableCall
    /\ \E scn \in [Requests -> Scenarios] :
         inflight = [ scn  |-> scn,
                      req  |-> [r \in Requests |-> newRequest],
                      best |-> [r \in Requests |-> noBest],
                      disk |-> {} ]

\* The single-request variables are not used while several requests run.
oneRequestIdle ==
    UNCHANGED << captcha, pc, response, files, strategyIdx, bestOcrResult,
                 bestConfidence, ocrResult, psmIdx, results, pending,
                 liveWorkers, terminateCalls, attemptLog, seen, table >>

\* A continuation of request r leaves it with locals q and best pair b.
continueWith(r, q, b) ==
    /\ inflight' = [inflight EXCEPT !.req[r] = q, !.best[bestOf(r)] = b]
    /\ oneRequestIdle

\* The same, and the debug image of the given name is written.
continueWriting(r, q, b, name) ==
    /\ inflight' = [inflight EXCEPT !.req[r] = q, !.best[bestOf(r)] = b,
                                    !.disk = @ \cup { << r >> \o name }]
    /\ oneRequestIdle

\* index.js 107-191 for request r: the iteration of the strategy loop is over
\* with best pair b.
nextStrategyOf(q, b) ==
    IF q.strategyIdx < Len(strategies)
    THEN [q EXCEPT !.strategyIdx = @ + 1, !.pc = "preprocess"]
    ELSE [q EXCEPT !.strategyIdx = @ + 1, !.pc = "done",
                   !.response = respond(b.result)]

\* index.js 121-125: the result of a rendering is kept when its confidence
\* is higher than the best so far.
keepBest(b, res) ==
    IF res.confidence > b.confidence
    THEN [ result |-> res, confidence |-> res.confidence ]
    ELSE b

\* recognize.js 203-260 and index.js 119-129 for request r: a PSM attempt is
\* over, leaving results rs.
endAttemptOf(r, rs) ==
    LET q == [inflight.req[r] EXCEPT !.pending = null]
        b == inflight.best[bestOf(r)]
    IN  IF q.psmIdx < Len(psmStrategies)
        THEN continueWith(r, [q EXCEPT !.psmIdx = @ + 1,
                                       !.pc = "createWorker",
                                       !.results = rs], b)
        ELSE IF rs = << >>
        THEN continueWith(r, nextStrategyOf([q EXCEPT !.psmIdx = @ + 1,
                                                      !.results = rs], b), b)
        ELSE continueWith(r,
                 nextStrategyOf([q EXCEPT !.psmIdx = @ + 1,
                                          !.results = sort(rs)],
                                keepBest(b, recognizeTextResult(sort(rs)))),
                 keepBest(b, recognizeTextResult(sort(rs))))

\* The attempt request r is making.
attemptOf(r) ==
    inflight.scn[r].ocr[inflight.req[r].strategyIdx][inflight.req[r].psmIdx]

\* index.js 53-84 for request r.
ReceiveOf(r) ==
    LET q == inflight.req[r]
        b == inflight.best[bestOf(r)]
    IN  /\ q.pc = "start"
        /\ IF inflight.scn[r].captcha = "missing"
           THEN continueWith(r, [q EXCEPT !.pc = "done",
                    !.response = [ status |-> 400,
                                   error |-> "Missing required field: captcha" ]], b)
           ELSE IF inflight.scn[r].captcha = "nonstring"
           THEN continueWith(r, [q EXCEPT !.pc = "done",
                    !.response = [ status |-> 400,
                                   error |-> "Invalid captcha format: must be a base64 string" ]], b)
           ELSE continueWith(r, [q EXCEPT !.pc = "preprocessImage"], b)

\* index.js 84-110 for request r: the first preprocessImage call is over;
\* bestOcrResult and bestConfidence are initialised before the loop.
PreprocessImageOf(r) ==
    LET q == inflight.req[r]
        b == inflight.best[bestOf(r)]
    IN  /\ q.pc = "preprocessImage"
        /\ IF inflight.scn[r].captcha # "image" \/ inflight.scn[r].first = "throw"
           THEN continueWith(r, [q EXCEPT !.pc = "done",
                    !.response = processingFailed("Preprocessing failed")], b)
           ELSE continueWriting(r, [q EXCEPT !.pc = "preprocess",
                                             !.strategyIdx = 1],
                                noBest, << "debug" >>)

\* index.js 110-118 and 126-128 for request r: strategy.preprocess() is over.
StrategyPreprocessOf(r) ==
    LET q == inflight.req[r]
        b == inflight.best[bestOf(r)]
    IN  /\ q.pc = "preprocess"
        /\ IF inflight.scn[r].pre[q.strategyIdx] = "throw"
           THEN continueWith(r, nextStrategyOf(q, b), b)
           ELSE continueWriting(r, [q EXCEPT !.pc = "createWorker",
                                             !.psmIdx = 1,
                                             !.results = << >>],
                                b, debugPath(strategies[q.strategyIdx]))

\* recognize.js 163-168 for request r: Tesseract.createWorker is over.
CreateWorkerOf(r) ==
    LET q == inflight.req[r]
        b == inflight.best[bestOf(r)]
    IN  /\ q.pc = "createWorker"
        /\ IF attemptOf(r).fails = "createWorker"
           THEN endAttemptOf(r, q.results)
           ELSE continueWith(r, [q EXCEPT !.pc = "setParameters"], b)

\* recognize.js 168-188 for request r: worker.setParameters is over.
SetParametersOf(r) ==
    LET q == inflight.req[r]
        b == inflight.best[bestOf(r)]
    IN  /\ q.pc = "setParameters"
        /\ IF attemptOf(r).fails = "setParameters"
           THEN continueWith(r, [q EXCEPT !.pc = "terminate",
                                          !.pending = threw], b)
           ELSE continueWith(r, [q EXCEPT !.pc = "recognize"], b)

\* recognize.js 175-188 for request r: worker.recognize is over.
RecognizeOf(r) ==
    LET q == inflight.req[r]
        b == inflight.best[bestOf(r)]
    IN  /\ q.pc = "recognize"
        /\ IF attemptOf(r).fails = "recognize"
           THEN continueWith(r, [q EXCEPT !.pc = "terminate",
                                          !.pending = threw], b)
           ELSE continueWith(r, [q EXCEPT !.pc = "terminate",
                    !.pending = [ text |-> attemptOf(r).text,
                                  confidence |-> attemptOf(r).confidence ]], b)

\* Faulty finally block: a failure of worker.terminate() is swallowed and
\* the text read is kept.
TerminateOfKeepsText(r) ==
    LET q == inflight.req[r]
    IN  /\ q.pc = "terminate"
        /\ IF q.pending = threw
           THEN endAttemptOf(r, q.results)
           ELSE IF keepResult(Clean(q.pending.text))
           THEN endAttemptOf(r,
                    Append(q.results,
                           [ text       |-> Clean(q.pending.text),
                             confidence |-> q.pending.confidence,
                             mode       |-> psmStrategies[q.psmIdx] ]))
           ELSE endAttemptOf(r, q.results)

\* recognize.js 187-219 for request r: worker.terminate() is over.
TerminateOf(r) ==
    LET q == inflight.req[r]
    IN  /\ q.pc = "terminate"
        /\ IF attemptOf(r).fails = "terminate" \/ q.pending = threw
           THEN endAttemptOf(r, q.results)
           ELSE IF keepResult(Clean(q.pending.text))
           THEN endAttemptOf(r,
                    Append(q.results,
                           [ text       |-> Clean(q.pending.text),
                             confidence |-> q.pending.confidence,
                             mode       |-> psmStrategies[q.psmIdx] ]))
           ELSE endAttemptOf(r, q.results)

NextTwo ==
    \/ \E r \in Requests : ReceiveOf(r)
    \/ \E r \in Requests : PreprocessImageOf(r)
    \/ \E r \in Requests : StrategyPreprocessOf(r)
    \/ \E r \in Requests : CreateWorkerOf(r)
    \/ \E r \in Requests : SetParametersOf(r)
    \/ \E r \in Requests : RecognizeOf(r)
    \/ \E r \in Requests : TerminateOf(r)

SpecTwo == InitTwo /\ [][NextTwo]_vars

\* ------------------------------------------------------------------------
\* The confusion-table version of the recognizer: CHARACTER_CONFUSIONS,
\* generateCorrectionVariants and recognizeWithTesseract with the running
\* best, and cleanOCROutput
\* ------------------------------------------------------------------------

\* The keys of CHARACTER_CONFUSIONS.
confusionKeys ==
    { << "W" >>, << "V", "V" >>, << "I" >>, << "1" >>, << "l" >>, << "O" >>,
      << "0" >>, << "S" >>, << "5" >>, << "Z" >>, << "2" >>, << "B" >>,
      << "8" >> }

CHARACTER_CONFUSIONS ==
    [ key \in confusionKeys |->
        CASE key = << "W" >> -> << << "V", "V" >>, << "V" >> >>
          [] key = << "V", "V" >> -> << << "W" >> >>
          [] key = << "I" >> -> << << "1" >>, << "l" >> >>
          [] key = << "1" >> -> << << "I" >>, << "l" >> >>
          [] key = << "l" >> -> << << "I" >>, << "1" >> >>
          [] key = << "O" >> -> << << "0" >> >>
          [] key = << "0" >> -> << << "O" >> >>
          [] key = << "S" >> -> << << "5" >> >>
          [] key = << "5" >> -> << << "S" >> >>
          [] key = << "Z" >> -> << << "2" >> >>
          [] key = << "2" >> -> << << "Z" >> >>
          [] key = << "B" >> -> << << "8" >> >>
          [] key = << "8" >> -> << << "B" >> >> ]

\* text.substring(0, i) + alternative + text.substring(i + 1), i from 1.
substitute(text, i, alternative) ==
    SubSeq(text, 1, i - 1) \o alternative \o SubSeq(text, i + 1, Len(text))

\* The loop replacing each W individually, from position i on.
RECURSIVE eachW(_, _)
eachW(text, i) ==
    IF i > Len(text) THEN << >>
    ELSE (IF text[i] = "W" THEN << substitute(text, i, << "V" >>) >> ELSE << >>)
         \o eachW(text, i + 1)

\* text.includes('VV')
includesVV(text) ==
    \E i \in 1..(Len(text) - 1) : text[i] = "V" /\ text[i + 1] = "V"

\* text.replace(/VV/g, 'W'): matches taken from the left, without overlap.
RECURSIVE replaceVV(_)
replaceVV(text) ==
    IF Len(text) < 2 THEN text
    ELSE IF text[1] = "V" /\ text[2] = "V"
    THEN << "W" >> \o replaceVV(SubSeq(text, 3, Len(text)))
    ELSE << text[1] >> \o replaceVV(Tail(text))

\* The texts the loop over CHARACTER_CONFUSIONS builds from position i on.
RECURSIVE confusionsFrom(_, _)
confusionsFrom(text, i) ==
    IF i > Len(text) THEN << >>
    ELSE (IF << text[i] >> \in confusionKeys
          THEN [ k \in 1..Len(CHARACTER_CONFUSIONS[<< text[i] >>]) |->
                   substitute(text, i, CHARACTER_CONFUSIONS[<< text[i] >>][k]) ]
          ELSE << >>)
         \o confusionsFrom(text, i + 1)

\* generateCorrectionVariants of the confusion-table version: the text, its
\* W-to-V forms, its VV-to-W form, then every single substitution of the
\* table that is not yet among the variants.
tableVariants(text) ==
    uniq(<< text >>
         \o (IF includes(text, "W")
             THEN << replaceAll(text, "W", "V") >> \o eachW(text, 1)
             ELSE << >>)
         \o (IF includesVV(text) THEN << replaceVV(text) >> ELSE << >>),
         confusionsFrom(text, 1))

\* cleaned.length >= 4 && cleaned.length <= 6
goodLength(text) == Len(text) >= 4 /\ Len(text) <= 6

\* Array.from(allVariants).filter(v => v.length >= 4 && v.length <= 6)
returnedVariants(allVariants) == SelectSeq(allVariants, goodLength)

\* Texts worker.recognize returns to the confusion-table recognizer.
TableTexts ==
    { << "w", "1", "v", "v" >>,
      << "a", "t", "-", "1", "k", "9", " ", "o", "x" >>,
      << "S", "0", "B", "2", "Z" >>,
      << "?" >> }

\* Confidences worker.recognize reports, on the scale of 0 to 100.
TableConfidences == { 0, 50, 90 }

\* cleanOCROutput: an empty text is rejected, any other text is cleaned.
cleanOCROutput(rawText) ==
    IF rawText = << >>
    THEN [ threw |-> TRUE, text |-> << >> ]
    ELSE [ threw |-> FALSE, text |-> Clean(rawText) ]

InitTable ==
    /\ captcha = "image"
    /\ pc = "start"
    /\ response = NoResponse
    /\ files = {}
    /\ strategyIdx = 0
    /\ bestOcrResult = null
    /\ bestConfidence = 0
    /\ ocrResult = null
    /\ psmIdx = 0
    /\ results = << >>
    /\ pending = null
    /\ liveWorkers = {}
    /\ terminateCalls = 0
    /\ attemptLog = << >>
    /\ seen = {}
    /\ inflight = NoRequests
    /\ table = [NoTableCall EXCEPT !.pc = "recognizeWithConfig", !.idx = 1]

\* Lines 144-155: the running best after a text of the given confidence was
\* cleaned.
keepTableBest(t, text, confidence) ==
    IF goodLength(text) /\ confidence > t.bestConfidence
    THEN [t EXCEPT !.bestConfidence = confidence, !.bestLength = Len(text),
                   !.bestResult = text]
    ELSE IF Len(text) > t.bestLength
    THEN [t EXCEPT !.bestLength = Len(text), !.bestResult = text]
    ELSE t

\* Lines 130-179: the loop goes to the next strategy; after the last one the
\* best result is returned, or the call throws when there is none.
nextTableStrategy(t) ==
    IF t.idx < Len(psmStrategies)
    THEN [t EXCEPT !.idx = @ + 1]
    ELSE IF Len(t.bestResult) > 0
    THEN [t EXCEPT !.idx = @ + 1, !.pc = "returned",
                   !.ret = [ text |-> t.bestResult,
                             variants |-> returnedVariants(t.allVariants) ]]
    ELSE [t EXCEPT !.idx = @ + 1, !.pc = "threw"]

\* Lines 157-168: a text of good length with a confidence above 85 is
\* returned at once; otherwise the loop goes on.
afterTableAttempt(t, text, confidence) ==
    IF goodLength(text) /\ confidence > 85
    THEN [t EXCEPT !.pc = "returned",
                   !.ret = [ text |-> text,
                             variants |-> returnedVariants(t.allVariants) ]]
    ELSE nextTableStrategy(t)

\* Lines 130-179: recognizeWithConfig of one strategy is over.  A failure is
\* caught and the next strategy follows; otherwise the text is cleaned, its
\* variants are added to allVariants and the running best is updated.
TableAttempt ==
    /\ table.pc = "recognizeWithConfig"
    /\ \/ table' = nextTableStrategy(table)
       \/ \E text \in TableTexts, confidence \in TableConfidences :
            LET cleaned == Clean(text)
                t == [table EXCEPT
                        !.allVariants = uniq(@, tableVariants(cleaned)),
                        !.reads = Append(@, [ raw |-> text,
                                              text |-> cleaned,
                                              confidence |-> confidence ])]
            IN  table' = afterTableAttempt(keepTableBest(t, cleaned, confidence),
                                           cleaned, confidence)
    /\ UNCHANGED << captcha, pc, response, files, strategyIdx, bestOcrResult,
                    bestConfidence, ocrResult, psmIdx, results, pending,
                    liveWorkers, terminateCalls, attemptLog, seen, inflight >>

NextTable == TableAttempt

SpecTable == InitTable /\ [][NextTable]_vars

\* ------------------------------------------------------------------------
\* Properties
\* ------------------------------------------------------------------------

\* recognizeWithTesseract is between its first createWorker call and its
\* return.
Recognizing == pc \in { "createWorker", "setParameters", "recognize", "terminate" }

\* A worker exists while the handler awaits one of these calls.
WorkerPhases == { "setParameters", "recognize", "terminate" }

\* Every preprocessing strategy produced a rendering that was handed to OCR.
AllRendered == \A i \in 1..Len(strategies) : debugPath(strategies[i]) \in files

\* C1: over the whole request, if any candidate has cleaned length exactly 4,
\* the text finally returned derives from a candidate of cleaned length
\* exactly 4, whatever the confidence of candidates of another length.
C1_ExactLengthWinsOverall ==
    (pc = "done" /\ "exact" \in seen /\ response.status = 200)
        => /\ bestOcrResult # null
           /\ Len(bestOcrResult.winner.text) = 4

\* C2: within one rendering the surviving candidates have cleaned length at
\* least 3 and are ranked so that every candidate of length exactly 4
\* precedes every candidate of another length and, among candidates equal on
\* that preference, a higher confidence precedes a lower one; the winner is
\* the first candidate of the ranking.
C2_RankingWithinRendering ==
    ~Recognizing =>
        /\ \A i \in 1..Len(results) : Len(results[i].text) >= 3
        /\ \A i, j \in 1..Len(results) :
              i < j =>
                /\ (Len(results[j].text) = 4 => Len(results[i].text) = 4)
                /\ ((Len(results[i].text) = 4) = (Len(results[j].text) = 4)
                        => results[i].confidence >= results[j].confidence)
        /\ ocrResult # null =>
              /\ Len(results) >= 1
              /\ ocrResult.winner.text = results[1].text
              /\ ocrResult.winner.confidence = results[1].confidence

\* A ranking whose winner has length 4 and a lower confidence than a
\* candidate of another length behind it.
C2_Witness ==
    /\ ~Recognizing
    /\ ocrResult # null
    /\ Len(ocrResult.winner.text) = 4
    /\ \E j \in 2..Len(results) :
          /\ Len(results[j].text) # 4
          /\ results[j].confidence > results[1].confidence

\* C3: when every attempt of every rendering yields a cleaned text shorter
\* than 3 characters or fails, the request ends with the empty solution as a
\* normal outcome, with no error response.
C3_EmptySolutionWhenNoCandidate ==
    (pc = "done" /\ captcha = "image" /\ AllRendered /\ seen = {})
        => /\ response.status = 200
           /\ response.solution = << >>

\* C4: when the captcha string cannot be decoded as an image, the request
\* fails with HTTP 500 'OCR processing failed', no solution field is
\* returned and no OCR worker is ever created.
C4_UndecodableFails ==
    captcha = "undecodable" =>
        /\ liveWorkers = {}
        /\ ~Recognizing
        /\ pc = "done" =>
              /\ response.status = 500
              /\ response.error = "OCR processing failed"
              /\ "solution" \notin DOMAIN response

\* The request for an undecodable captcha has been answered.
C4_Witness ==
    /\ captcha = "undecodable"
    /\ pc = "done"
    /\ response.status = 500

\* C5: a failed PSM attempt is an absent result for that attempt only: all
\* four strategies of the rendering are attempted, and the results hold
\* exactly the candidates of the attempts that produced a usable text.
C5_FailedAttemptIsLocal ==
    /\ \A j \in 1..Len(attemptLog) :
          (attemptLog[j] = "usable")
              = (\E i \in 1..Len(results) : results[i].mode = psmStrategies[j])
    /\ (~Recognizing /\ attemptLog # << >>) => Len(attemptLog) = 4

\* The winner of a rendering comes from a strategy tried after one that
\* failed.
C5_Witness ==
    /\ ~Recognizing
    /\ ocrResult # null
    /\ \E i, j \in 1..Len(attemptLog) :
          /\ i < j
          /\ attemptLog[i] = "failed"
          /\ results[1].mode = psmStrategies[j]

\* C6: a failure of one profile's transform chain does not abort the
\* request: every profile is still rendered and recognized, and the request
\* fails only if no profile at all produced a rendering.
C6_ProfileFailureDoesNotAbort ==
    (pc = "done" /\ captcha = "image") =>
        /\ strategyIdx = Len(strategies) + 1
        /\ response.status = 500 =>
              \A i \in 1..Len(strategies) : debugPath(strategies[i]) \notin files

\* C7: a worker belongs to exactly one (rendering, strategy) attempt,
\* terminate() is called on it exactly once before the attempt is over, on
\* every exit path, and no worker is alive outside an attempt or at the end
\* of the request.
C7_WorkerScopedAndTerminated ==
    /\ liveWorkers \subseteq { currentWorker }
    /\ terminateCalls <= 1
    /\ pc \in { "setParameters", "recognize" } =>
          (liveWorkers = { currentWorker } /\ terminateCalls = 0)
    /\ pc = "terminate" =>
          (liveWorkers = { currentWorker } /\ terminateCalls = 1)
    /\ pc \notin WorkerPhases => liveWorkers = {}
    /\ (pc \notin WorkerPhases /\ (attemptLog # << >> \/ bestOcrResult # null))
          => (terminateCalls = 1 \/ \A j \in 1..Len(attemptLog) : attemptLog[j] = "failed")

\* The request is over after attempts that failed and attempts that
\* succeeded, and the last worker was terminated.
C7_Witness ==
    /\ pc = "done"
    /\ liveWorkers = {}
    /\ terminateCalls = 1
    /\ includes(attemptLog, "failed")
    /\ includes(attemptLog, "usable")
    /\ includes(attemptLog, "unusable")

\* C8: if the text handed to the corrector contains W, has exactly 4
\* characters and its all-W-to-V form is among the alternatives, the final
\* text is that form ('W0RD' gives 'V0RD'); if it contains no W or its
\* length is not 4, the final text is the text unchanged.
C8_SmartCorrection ==
    (pc = "done" /\ bestOcrResult # null) =>
        LET w == bestOcrResult.solution
            a == bestOcrResult.alternatives
            v == [i \in 1..Len(w) |-> IF w[i] = "W" THEN "V" ELSE w[i]]
            hasW == \E i \in 1..Len(w) : w[i] = "W"
        IN  /\ response.status = 200
            /\ (hasW /\ Len(w) = 4 /\ (\E k \in 1..Len(a) : a[k] = v))
                  => response.solution = v
            /\ (~hasW \/ Len(w) # 4) => response.solution = w
            /\ w = << "W", "0", "R", "D" >> =>
                  /\ \E k \in 1..Len(a) : a[k] = << "V", "0", "R", "D" >>
                  /\ response.solution = << "V", "0", "R", "D" >>

\* 'W0RD' won and 'V0RD' was answered.
C8_Witness ==
    /\ pc = "done"
    /\ bestOcrResult # null
    /\ bestOcrResult.solution = << "W", "0", "R", "D" >>
    /\ response.status = 200
    /\ response.solution = << "V", "0", "R", "D" >>

\* C9: the text returned consists only of uppercase letters A-Z and digits
\* 0-9, also after the W-to-V substitution and after truncation.
C9_SolutionIsAlphanumeric ==
    response.status = 200 =>
        \A i \in 1..Len(response.solution) :
            response.solution[i] \in Letters \cup Digits

\* A raw text with lowercase letters, punctuation and more than 4 usable
\* characters won, and its cleaned and truncated form was answered.
C9_Witness ==
    /\ pc = "done"
    /\ response.status = 200
    /\ bestOcrResult # null
    /\ Len(bestOcrResult.winner.text) > 4
    /\ response.solution = << "A", "T", "1", "K" >>

\* C10: whenever a text is returned, by the recognizer to the handler or by
\* the handler to the client, its length is at least 3 and at most 6.
C10_SolutionLengthInRange ==
    /\ response.status = 200 =>
          (Len(response.solution) >= 3 /\ Len(response.solution) <= 6)
    /\ ocrResult # null =>
          (Len(ocrResult.solution) >= 3 /\ Len(ocrResult.solution) <= 6)
    /\ bestOcrResult # null =>
          (Len(bestOcrResult.solution) >= 3 /\ Len(bestOcrResult.solution) <= 6)

\* A candidate of more than 6 characters won and a text within the range
\* was answered.
C10_Witness ==
    /\ pc = "done"
    /\ response.status = 200
    /\ bestOcrResult # null
    /\ Len(bestOcrResult.winner.text) > 6
    /\ Len(response.solution) = 4

\* Values returned by recognizeText that the handler holds.
HeldResults == { r \in { ocrResult, bestOcrResult } : r # null }

\* C11 as stated: the text returned for a winner is the winner's cleaned
\* text, shortened to its first 6 characters only when it is longer than 6.
C11_TruncatedOnlyAboveSix ==
    \A r \in HeldResults :
        r.solution = IF Len(r.winner.text) > 6
                     THEN SubSeq(r.winner.text, 1, 6)
                     ELSE r.winner.text

\* C11 amended: the text returned for a winner is the winner's cleaned text,
\* shortened to exactly its first 4 characters when it is longer than 4, and
\* returned in full when its length is 3 or 4.
C11_TruncatedAboveFour ==
    \A r \in HeldResults :
        /\ Len(r.winner.text) > 4 => r.solution = SubSeq(r.winner.text, 1, 4)
        /\ Len(r.winner.text) \in { 3, 4 } => r.solution = r.winner.text

\* A winner of 7 characters was returned as its first 4 characters.
C11_Witness ==
    /\ ocrResult # null
    /\ ocrResult.winner.text = << "A", "T", "1", "K", "9", "O", "X" >>
    /\ ocrResult.solution = << "A", "T", "1", "K" >>

\* C12: a body without captcha, or with a captcha that is not a string, is
\* answered with 400 and nothing else happens: the request never leaves the
\* validation, no file is written and no worker is created.
C12_InvalidBodyRejected ==
    captcha \in { "missing", "nonstring" } =>
        /\ pc \in { "start", "done" }
        /\ pc = "done" => response.status = 400
        /\ files = {}
        /\ liveWorkers = {}
        /\ terminateCalls = 0
        /\ strategyIdx = 0

\* A captcha that is not a string was answered with 400.
C12_Witness ==
    /\ captcha = "nonstring"
    /\ pc = "done"
    /\ response.status = 400
    /\ files = {}

\* C13: a request in which some attempt produced a candidate of cleaned
\* length >= 3 is answered with a non-empty solution.
C13_CandidateGivesSolution ==
    (pc = "done" /\ seen # {}) =>
        /\ response.status = 200
        /\ Len(response.solution) > 0

\* C14: every alternative of a returned result is non-empty, made of A-Z0-9,
\* as long as the returned text, and no alternative occurs twice.
C14_AlternativesWellFormed ==
    \A r \in HeldResults :
        /\ Len(r.alternatives) >= 1
        /\ \A k \in 1..Len(r.alternatives) :
               /\ Len(r.alternatives[k]) > 0
               /\ Len(r.alternatives[k]) = Len(r.solution)
               /\ \A i \in 1..Len(r.alternatives[k]) :
                      r.alternatives[k][i] \in Letters \cup Digits
        /\ \A k, l \in 1..Len(r.alternatives) :
               r.alternatives[k] = r.alternatives[l] => k = l

\* A result whose text holds both 1 and a further confusable character was
\* returned with several alternatives.
C14_Witness ==
    /\ ocrResult # null
    /\ includes(ocrResult.solution, "1")
    /\ Len(ocrResult.alternatives) >= 2

\* C15: when the text answered differs from the text of the best result,
\* the alternatives of the best result contain that text.
C15_OriginalKeptInAlternatives ==
    (/\ pc = "done"
     /\ response.status = 200
     /\ bestOcrResult # null
     /\ response.solution # bestOcrResult.solution) =>
        includes(bestOcrResult.alternatives, bestOcrResult.solution)

\* W was replaced by V in the answer and the alternatives start with the
\* text as it was read.
C15_Witness ==
    /\ pc = "done"
    /\ response.status = 200
    /\ bestOcrResult # null
    /\ response.solution # bestOcrResult.solution
    /\ bestOcrResult.alternatives[1] = bestOcrResult.solution
    /\ includes(bestOcrResult.solution, "W")

\* Position of a mode in an order of modes.
position(order, mode) == CHOOSE i \in 1..Len(order) : order[i] = mode

\* Two candidates equal on the preference for length 4 and on confidence.
tied(a, b) == is4(a) = is4(b) /\ a.confidence = b.confidence

\* The first of the sorted candidates precedes, in the given order of modes,
\* every candidate tied with it.
firstSeenWins(order) ==
    (~Recognizing /\ results # << >>) =>
        \A j \in 1..Len(results) :
            tied(results[1], results[j]) =>
                position(order, results[1].mode)
                    <= position(order, results[j].mode)

\* C16 as stated: among tied candidates the winner is the first in the order
\* single-word, single-line, single-block, raw-line.
C16_TieBrokenInStatedOrder ==
    firstSeenWins(<< "WORD", "LINE", "BLOCK", "RAW" >>)

\* C16 amended: among tied candidates the winner is the first in the order
\* single-line, single-word, raw-line, single-block.
C16_TieBrokenInCodeOrder == firstSeenWins(psmStrategies)

\* A single-line and a single-word candidate were tied and the single-line
\* one came first.
C16_Witness ==
    /\ ~Recognizing
    /\ Len(results) >= 2
    /\ results[1].mode = "LINE"
    /\ results[2].mode = "WORD"
    /\ tied(results[1], results[2])

\* The responses the handler sends.
Statuses == { 200, 400, 422, 500 }

\* Position of the continuation inside one PSM attempt.
phase ==
    CASE pc = "createWorker" -> 1
      [] pc = "setParameters" -> 2
      [] pc = "recognize" -> 3
      [] pc = "terminate" -> 4
      [] OTHER -> 0

\* How far the request has come: the strategy, then the PSM attempt, then
\* the continuation inside the attempt.
MaxProgress == (Len(strategies) + 2) * 100

progress ==
    CASE pc = "start" -> 0
      [] pc = "preprocessImage" -> 1
      [] pc = "done" -> MaxProgress
      [] OTHER -> strategyIdx * 100
                  + (IF Recognizing THEN psmIdx * 10 + phase ELSE 0)

\* The continuation the request waits for can run, whatever the awaited call
\* does.  (For worker.terminate() this is stated for the attempts that are
\* followed by another attempt of the same rendering.)
ContinuationReady ==
    /\ pc = "start" => ENABLED Receive
    /\ pc = "preprocessImage" => ENABLED PreprocessImage
    /\ pc = "preprocess" => ENABLED StrategyPreprocess
    /\ pc = "createWorker" => ENABLED CreateWorker
    /\ pc = "setParameters" => ENABLED SetParameters
    /\ pc = "recognize" => ENABLED Recognize
    /\ (pc = "terminate" /\ psmIdx < Len(psmStrategies)) => ENABLED Terminate
    /\ pc \in { "start", "preprocessImage", "preprocess", "createWorker",
                "setParameters", "recognize", "terminate", "done" }

\* C18: when every awaited call returns or fails, the request ends with a
\* response, which is a solution or an error: every continuation brings the
\* request strictly further, there is a limit to how far it can go, a
\* request that is not over waits for a continuation that can run, and it is
\* over exactly when a response has been sent.  So no sequence of attempt
\* results makes it loop or wait forever.
C18_Terminates ==
    /\ [][progress' > progress]_vars
    /\ [](progress \in 0..MaxProgress)
    /\ [](ContinuationReady)
    /\ [](pc = "done" <=> response.status \in Statuses)

\* The request went through every strategy and every PSM attempt of the last
\* one, and a response was sent.
C18_Witness ==
    /\ pc = "done"
    /\ response.status \in Statuses
    /\ strategyIdx = Len(strategies) + 1
    /\ psmIdx = Len(psmStrategies) + 1
    /\ Len(attemptLog) = Len(psmStrategies)

\* The debug images a request may write.
DebugImages ==
    { << "debug" >> } \cup { debugPath(strategies[i]) : i \in 1..Len(strategies) }

\* C19 as stated: a request that is over has left no file.
C19_NoFileLeft == pc = "done" => files = {}

\* The files written are debug images: the one of the first preprocessing
\* once it has succeeded, and the one of each strategy whose preprocessing
\* has succeeded.
OnlyDebugImages ==
    /\ files \subseteq DebugImages
    /\ strategyIdx = 0 => files = {}
    /\ strategyIdx >= 1 => << "debug" >> \in files
    /\ Recognizing => << "debug", strategies[strategyIdx] >> \in files
    /\ \A i \in 1..Len(strategies) :
           << "debug", strategies[i] >> \in files => i <= strategyIdx
    /\ captcha # "image" => files = {}

\* C19 amended: a request persists nothing but its debug images, which are
\* never removed: debug-<id>.png once the first preprocessing has succeeded
\* and debug-<id>-<strategy>.png for each strategy whose preprocessing has
\* succeeded; a request answered with 400, or whose first preprocessing
\* fails, leaves no file.
C19_OnlyDebugImagesLeft ==
    /\ [](OnlyDebugImages)
    /\ [][files \subseteq files']_vars

\* A request is over and has left the four debug images.
C19_Witness ==
    /\ pc = "done"
    /\ files = DebugImages
    /\ Cardinality(files) = 4

\* The candidate an attempt leaves when nothing fails.
candidateOf(attempt, mode) ==
    IF attempt.fails = "none" /\ keepResult(Clean(attempt.text))
    THEN << [ text |-> Clean(attempt.text),
              confidence |-> attempt.confidence, mode |-> mode ] >>
    ELSE << >>

\* The candidates of one rendering of a scenario, in the order of the modes.
candidatesOf(scn, s) ==
    candidateOf(scn.ocr[s][1], psmStrategies[1])
    \o candidateOf(scn.ocr[s][2], psmStrategies[2])
    \o candidateOf(scn.ocr[s][3], psmStrategies[3])
    \o candidateOf(scn.ocr[s][4], psmStrategies[4])

\* The best pair a request running alone holds after the renderings s, s+1,
\* ... of its scenario, starting from the pair b.
RECURSIVE bestAlone(_, _, _)
bestAlone(scn, s, b) ==
    IF s > Len(strategies) THEN b
    ELSE IF scn.pre[s] = "throw" \/ candidatesOf(scn, s) = << >>
    THEN bestAlone(scn, s + 1, b)
    ELSE bestAlone(scn, s + 1,
                   keepBest(b, recognizeTextResult(sort(candidatesOf(scn, s)))))

\* The response a request produces when it runs alone.
responseAlone(scn) ==
    IF scn.captcha = "missing"
    THEN [ status |-> 400, error |-> "Missing required field: captcha" ]
    ELSE IF scn.captcha = "nonstring"
    THEN [ status |-> 400,
           error |-> "Invalid captcha format: must be a base64 string" ]
    ELSE IF scn.captcha # "image" \/ scn.first = "throw"
    THEN processingFailed("Preprocessing failed")
    ELSE respond(bestAlone(scn, 1, noBest).result)

\* C20: with several requests in flight and their continuations interleaved
\* in any order, every request that is over has sent the response it would
\* have sent running alone on the same image and OCR results, and the
\* candidates it holds are its own.
C20_RequestsIndependent ==
    \A r \in Requests :
        /\ inflight.req[r].pc = "done" =>
               inflight.req[r].response = responseAlone(inflight.scn[r])
        /\ inflight.req[r].pc = "preprocess" =>
               inflight.best[r] =
                   bestAlone([inflight.scn[r] EXCEPT
                                  !.pre = [s \in 1..Len(strategies) |->
                                              IF s < inflight.req[r].strategyIdx
                                              THEN @[s] ELSE "throw"]],
                             1, noBest)

\* Request 1 has answered with a solution while request 2, in flight with
\* another image, is between two of its attempts and holds a candidate.
C20_Witness ==
    /\ inflight.req[1].pc = "done"
    /\ inflight.req[1].response.status = 200
    /\ inflight.req[2].pc = "createWorker"
    /\ inflight.req[2].results # << >>
    /\ inflight.scn[1] # inflight.scn[2]
    /\ inflight.best[1].result # null

\* C21: in every rendering handed to recognizeWithTesseract the four modes
\* are attempted once each, in order, whatever the earlier attempts gave: the
\* attempts made so far are those before the current mode, a rendering whose
\* loop is over has had four, and no mode has left two candidates.
C21_EveryModeAttemptedOnce ==
    /\ Recognizing =>
          (psmIdx \in 1..Len(psmStrategies) /\ Len(attemptLog) = psmIdx - 1)
    /\ (~Recognizing /\ psmIdx # 0) =>
          (psmIdx = Len(psmStrategies) + 1
           /\ Len(attemptLog) = Len(psmStrategies))
    /\ \A i, j \in 1..Len(results) :
          results[i].mode = results[j].mode => i = j

\* Later modes were attempted after a usable result, after an unusable one
\* and after a failure.
C21_Witness ==
    /\ ~Recognizing
    /\ attemptLog = << "usable", "unusable", "failed", "usable" >>
    /\ Len(results) = 2

\* C26: no request is answered with 422, and every solution answered has 3
\* or 4 characters, as has every text recognizeText returns.
C26_NoLengthError ==
    /\ response.status # 422
    /\ response.status = 200 => Len(response.solution) \in { 3, 4 }
    /\ \A r \in HeldResults : Len(r.solution) \in { 3, 4 }

\* A solution of 3 characters was answered.
C26_Witness ==
    /\ pc = "done"
    /\ response.status = 200
    /\ Len(response.solution) = 3

\* C27: no solution of 4 characters answered contains W; the text returned
\* by recognizeText for a 4-character winner with W always has its W-to-V
\* form among the alternatives.
C27_NoWInFourCharacters ==
    /\ (response.status = 200 /\ Len(response.solution) = 4) =>
          ~includes(response.solution, "W")
    /\ \A r \in HeldResults :
          (Len(r.solution) = 4 /\ includes(r.solution, "W")) =>
              includes(r.alternatives, replaceAll(r.solution, "W", "V"))

\* A solution of 3 characters with W was answered as it was read.
C27_Witness ==
    /\ pc = "done"
    /\ response.status = 200
    /\ response.solution = << "W", "0", "R" >>

\* C28: a request gets exactly one response, with status 200, 400, 422 or
\* 500: none while the handler runs, one when it is over, and a response
\* that was sent is never followed by another.
C28_ExactlyOneResponse ==
    /\ [](pc # "done" => response = NoResponse)
    /\ [](pc = "done" => response.status \in Statuses)
    /\ [][response # NoResponse => response' = response]_vars

\* The request without captcha was answered with 400 and is over.
C28_Witness ==
    /\ captcha = "missing"
    /\ pc = "done"
    /\ response.status = 400

\* C29: at most one worker is alive at any moment of a request, and none
\* when the next one is about to be created.
C29_OneWorkerAtATime ==
    /\ [](Cardinality(liveWorkers) <= 1)
    /\ [](pc = "createWorker" => liveWorkers = {})
    /\ [][(liveWorkers' # liveWorkers /\ liveWorkers' # {}) => liveWorkers = {}]_vars

\* The second attempt of a rendering has its worker, and the worker of the
\* first attempt is gone.
C29_Witness ==
    /\ pc = "recognize"
    /\ psmIdx = 2
    /\ liveWorkers = { << strategyIdx, 2 >> }
    /\ attemptLog = << "usable" >>

\* The scenario in which every attempt whose terminate() fails after a text
\* was read is an attempt whose recognition fails.
asFailedRecognition(scn) ==
    [scn EXCEPT !.ocr =
        [s \in 1..Len(strategies) |->
            [p \in 1..Len(psmStrategies) |->
                IF scn.ocr[s][p].fails = "terminate"
                THEN failsAt("recognize")
                ELSE scn.ocr[s][p]]]]

\* C30: an attempt whose worker.recognize returned a text and whose
\* worker.terminate() then failed leaves no candidate, and the request ends
\* as it does when the recognition of that attempt fails.
C30_TerminateFailureDiscardsText ==
    \A r \in Requests :
        LET q == inflight.req[r]
        IN  /\ q.pc \in { "createWorker", "setParameters", "recognize",
                          "terminate" } =>
                  \A i \in 1..Len(q.results) :
                      inflight.scn[r].ocr[q.strategyIdx]
                          [position(psmStrategies, q.results[i].mode)].fails
                      = "none"
            /\ q.pc = "done" =>
                  q.response = responseAlone(asFailedRecognition(inflight.scn[r]))

\* The second attempt of a rendering read a usable text, its terminate()
\* failed, and the third attempt starts without a candidate.
C30_Witness ==
    \E r \in Requests :
        LET q == inflight.req[r]
        IN  /\ q.pc = "createWorker"
            /\ q.psmIdx = 3
            /\ inflight.scn[r].ocr[q.strategyIdx][2].fails = "terminate"
            /\ keepResult(Clean(inflight.scn[r].ocr[q.strategyIdx][2].text))
            /\ q.results = << >>

\* A text made of A-Z and 0-9 only.
isClean(text) == \A i \in 1..Len(text) : IsAlnum(text[i])

\* C22 as stated: cleaning a text that is already cleaned returns it
\* unchanged, for the cleaning of recognizeWithTesseract and for
\* cleanOCROutput, and a cleaned text holds only A-Z0-9.
C22_CleaningIdempotent ==
    \A k \in 1..Len(table.reads) :
        LET raw == table.reads[k].raw
        IN  /\ isClean(Clean(raw))
            /\ Clean(Clean(raw)) = Clean(raw)
            /\ ~cleanOCROutput(raw).threw =>
                  cleanOCROutput(cleanOCROutput(raw).text)
                      = [ threw |-> FALSE, text |-> cleanOCROutput(raw).text ]

\* C22 amended: the cleaning of recognizeWithTesseract returns a cleaned
\* text unchanged and yields only A-Z0-9; cleanOCROutput does the same for
\* every text it has cleaned except the empty one, which it rejects.
C22_CleaningIdempotentUnlessEmpty ==
    \A k \in 1..Len(table.reads) :
        LET raw == table.reads[k].raw
            once == cleanOCROutput(raw)
        IN  /\ isClean(Clean(raw))
            /\ Clean(Clean(raw)) = Clean(raw)
            /\ table.reads[k].text = Clean(raw)
            /\ (~once.threw /\ once.text # << >>) =>
                  cleanOCROutput(once.text) = [ threw |-> FALSE, text |-> once.text ]
            /\ (~once.threw /\ once.text = << >>) =>
                  cleanOCROutput(once.text).threw

\* A text with several characters outside A-Z0-9 and a text with none of
\* A-Z0-9 were cleaned.
C22_Witness ==
    /\ \E k \in 1..Len(table.reads) :
          /\ table.reads[k].raw = << "a", "t", "-", "1", "k", "9", " ", "o", "x" >>
          /\ table.reads[k].text = << "A", "T", "1", "K", "9", "O", "X" >>
    /\ \E k \in 1..Len(table.reads) :
          /\ table.reads[k].raw = << "?" >>
          /\ table.reads[k].text = << >>

\* The corrector of the confusion-table version substitutes x by y.
tableSubstitutes(x, y) ==
    \/ x \in confusionKeys /\ includes(CHARACTER_CONFUSIONS[x], y)
    \/ x = << "W" >> /\ y = << "V" >>
    \/ x = << "V", "V" >> /\ y = << "W" >>

\* The corrector of the sort-based version substitutes character x by y.
inlineSubstitutes(x, y) ==
    x # y /\ includes(generateCorrectionVariants(<< x >>), << y >>)

\* The strings CHARACTER_CONFUSIONS names, as keys or as alternatives.
confusionStrings ==
    confusionKeys
    \cup UNION { { CHARACTER_CONFUSIONS[key][k] :
                     k \in 1..Len(CHARACTER_CONFUSIONS[key]) } :
                 key \in confusionKeys }

\* C23: whenever a corrector substitutes a character of a text that was read
\* by some y, it also substitutes y by that character.
C23_ConfusionsSymmetric ==
    \A k \in 1..Len(table.reads) :
        \A i \in 1..Len(table.reads[k].text) :
            LET x == table.reads[k].text[i]
            IN  /\ \A y \in confusionStrings :
                      tableSubstitutes(<< x >>, y) => tableSubstitutes(y, << x >>)
                /\ \A y \in Letters \cup Digits :
                      inlineSubstitutes(x, y) => inlineSubstitutes(y, x)

\* C24: every variant the confusion-table recognizer returns is made of
\* A-Z0-9 only.
C24_TableVariantsAreClean ==
    table.pc = "returned" =>
        \A k \in 1..Len(table.ret.variants) : isClean(table.ret.variants[k])

\* The texts of 4 to 6 characters read so far.
goodReads == { k \in 1..Len(table.reads) : goodLength(table.reads[k].text) }

\* C25: when some strategy read a text of 4 to 6 characters, the text the
\* confusion-table recognizer returns is the one of highest confidence among
\* the texts of 4 to 6 characters read.
C25_BestGoodLengthReturned ==
    (table.pc = "returned" /\ goodReads # {}) =>
        \E k \in goodReads :
            /\ table.ret.text = table.reads[k].text
            /\ \A j \in goodReads :
                  table.reads[j].confidence <= table.reads[k].confidence

====
